---- MODULE Spec2Model ----
(***************************************************************************)
(* Model of smv.modulesvisitor.ModulesVisitor: the construction of the     *)
(* leaf-first module ordering (_build_queue) and the two traversals        *)
(* (dfs_visit, bfs_visit) that walk it.                                    *)
(*                                                                         *)
(* A module is a node; node.resolvedRequiresDS is the sequence deps[node]. *)
(* The while loop of _build_queue is modelled statement by statement: the  *)
(* dequeue is one step and every iteration of the for loop over the        *)
(* dequeued module's dependencies is one step.  The states with            *)
(* pc = "loop" are the tests of the while condition.                       *)
(***************************************************************************)
EXTENDS Naturals, Sequences, FiniteSets

VARIABLES
    deps,            \* deps[n]: n.resolvedRequiresDS, in declared order
    roots,           \* the argument of ModulesVisitor(roots)
    pc,              \* "idle" (no call yet), "loop" (at the while test), "for" (in the
                     \* for loop), "done" (self.queue set), "raised" (the constructor
                     \* was left by an exception)
    _working_queue,  \* the local FIFO queue of _build_queue
    _sorted,         \* the keys of the local OrderedDict, in dictionary order
    iter,            \* what the for loop over mod.resolvedRequiresDS has yet to yield
    queue,           \* self.queue
    called,          \* which of dfs_visit / bfs_visit have been called
    dfs_calls,       \* the nodes the last dfs_visit passed to action, in call order
    bfs_calls,       \* the nodes the last bfs_visit passed to action, in call order
    built,           \* self.queue of every visitor constructed so far, oldest first
    threads,         \* threads[t]: the traversal call that thread t makes on the visitor
    heap,            \* heap[s]: the value of the caller's state object s
    failing,         \* the nodes whose resolvedRequiresDS raises when it is read
    raised,          \* the exceptions that have reached the caller of ModulesVisitor(roots)
    dequeued         \* dequeued[n]: how often _working_queue.get() has returned n

vars == <<deps, roots, pc, _working_queue, _sorted, iter, queue, called, dfs_calls,
          bfs_calls, built, threads, heap, failing, raised, dequeued>>

(***************************************************************************)
(* Bounds of the explored inputs.                                          *)
(***************************************************************************)
\* Total number of entries of the input: Len(roots) plus the lengths of all
\* dependency lists.
MaxSize == 5

\* Number of visitors constructed, one after the other, from the same roots.
MaxVisitors == 2

\* An iteration of the while loop is explored when it leaves at most QueueCap
\* entries in the work queue.  Only inputs with a dependency cycle can exceed
\* it.
QueueCap == 8

\* Traversals are explored call by call on the visitors constructed from an
\* input of at most MaxVisitSize entries.
MaxVisitSize == 4

\* A node is dequeued at most MaxDequeues times in one construction.  Only
\* inputs with a dependency cycle can exceed it.
MaxDequeues == 8

\* The modules, in rank order.
NodeSeq == <<"A", "B", "C", "D">>

Nodes == {NodeSeq[i] : i \in 1..Len(NodeSeq)}

Rank(n) == CHOOSE i \in 1..Len(NodeSeq) : NodeSeq[i] = n

\* The caller's threads that traverse one visitor at the same time, and the
\* state objects they pass: every thread passes a state object of its own.
Threads == {"t1", "t2"}

StateObjs == {"s1", "s2"}

StateOf(t) == IF t = "t1" THEN "s1" ELSE "s2"

(***************************************************************************)
(* Sequence helpers.                                                       *)
(***************************************************************************)
Elems(s) == {s[i] : i \in 1..Len(s)}

\* Number of occurrences of m in s.
Count(s, m) == Cardinality({i \in 1..Len(s) : s[i] = m})

\* The index of the first and of the last occurrence of m in s.
FirstIdx(s, m) == CHOOSE i \in 1..Len(s) : s[i] = m /\ \A j \in 1..(i - 1) : s[j] # m

LastIdx(s, m) == CHOOSE i \in 1..Len(s) : s[i] = m /\ \A j \in (i + 1)..Len(s) : s[j] # m

(***************************************************************************)
(* The containers used by _build_queue.                                    *)
(***************************************************************************)
\* Variant of Put: a node that is already waiting in the queue is not added.
PutIfAbsent(q, m) == IF \E i \in 1..Len(q) : q[i] = m THEN q ELSE Append(q, m)

\* queue.Queue.put(m): append at the back.
Put(q, m) == Append(q, m)

\* Variant of Get: the front entry is read but stays in the queue.
GetPeek(q) == q

\* queue.Queue.get(): the front entry, and the queue without it.
Front(q) == Head(q)

Get(q) == Tail(q)

\* m in _sorted
Contains(s, m) == \E i \in 1..Len(s) : s[i] = m

\* Variant of Pop: the key is left where it is.
PopNothing(s, m) == s

\* _sorted.pop(m): drop the key.
Pop(s, m) == SelectSeq(s, LAMBDA x : x # m)

\* Variant of Update: a plain list, the key is appended whether present or not.
UpdateAppend(s, m) == Append(s, m)

\* Variant of Update: an existing key is moved to the end.
UpdateMoveToEnd(s, m) == Append(SelectSeq(s, LAMBDA x : x # m), m)

\* _sorted.update({m: True}): a new key goes to the end, an existing key keeps
\* its place.
Update(s, m) == IF Contains(s, m) THEN s ELSE Append(s, m)

\* reversed(x)
Reversed(s) == [i \in 1..Len(s) |-> s[Len(s) + 1 - i]]

\* for m in roots: _working_queue.put(m)
RECURSIVE PutAll(_, _)
PutAll(q, ms) == IF ms = <<>> THEN q ELSE PutAll(Put(q, Head(ms)), Tail(ms))

\* Variant of UpdateAll: the roots are inserted from the last to the first.
RECURSIVE UpdateAllReversed(_, _)
UpdateAllReversed(s, ms) ==
    IF ms = <<>> THEN s
    ELSE LET r == UpdateAllReversed(s, Tail(ms))
         IN IF \E i \in 1..Len(r) : r[i] = Head(ms) THEN r ELSE Append(r, Head(ms))

\* Variant of UpdateAll: the roots are not inserted.
UpdateAllNone(s, ms) == s

\* for m in roots: _sorted.update({m: True})
RECURSIVE UpdateAll(_, _)
UpdateAll(s, ms) == IF ms = <<>> THEN s ELSE UpdateAll(Update(s, Head(ms)), Tail(ms))

\* Variant of Reinsert: the key is moved, or added, to the front.
ReinsertFront(s, m) == <<m>> \o SelectSeq(s, LAMBDA x : x # m)

\* Variant of Reinsert: a key already present keeps its place.
ReinsertKeepPlace(s, m) == IF \E i \in 1..Len(s) : s[i] = m THEN s ELSE Append(s, m)

\* Variant of Reinsert: a key already present is dropped and not inserted again.
ReinsertDropSeen(s, m) ==
    IF \E i \in 1..Len(s) : s[i] = m THEN SelectSeq(s, LAMBDA x : x # m) ELSE Append(s, m)

\* if (m in _sorted): _sorted.pop(m)
\* _sorted.update({m: True})
Reinsert(s, m) == Update(IF Contains(s, m) THEN Pop(s, m) ELSE s, m)

\* The sequence of nodes a for loop over ms passes to action, after acc.
RECURSIVE ForEach(_, _)
ForEach(ms, acc) == IF ms = <<>> THEN acc ELSE ForEach(Tail(ms), Append(acc, Head(ms)))

(***************************************************************************)
(* Graph notions used to state the properties.                             *)
(***************************************************************************)
\* The direct dependencies of n.
Requires(n) == Elems(deps[n])

RECURSIVE ReachFrom(_)
ReachFrom(S) ==
    LET T == S \cup UNION {Requires(n) : n \in S}
    IN IF T = S THEN S ELSE ReachFrom(T)

\* The direct and transitive dependencies of n.
DependenciesOf(n) == ReachFrom(Requires(n))

\* The roots and everything reachable from them.
Reachable == ReachFrom(Elems(roots))

OnCycle(n) == n \in DependenciesOf(n)

Acyclic == \A n \in Reachable : ~OnCycle(n)

(***************************************************************************)
(* The program.                                                            *)
(***************************************************************************)
\* No visitor has been constructed yet.
Init ==
    /\ pc = "idle"
    /\ roots = <<>>
    /\ deps = [n \in Nodes |-> <<>>]
    /\ _working_queue = <<>>
    /\ _sorted = <<>>
    /\ iter = <<>>
    /\ queue = <<>>
    /\ called = {}
    /\ dfs_calls = <<>>
    /\ bfs_calls = <<>>
    /\ built = <<>>
    /\ threads = [t \in Threads |-> [pc |-> "idle", kind |-> "dfs", idx |-> 0,
                                     state |-> StateOf(t), calls |-> <<>>]]
    /\ heap = [s \in StateObjs |-> <<>>]
    /\ failing = {}
    /\ raised = <<>>
    /\ dequeued = [n \in Nodes |-> 0]

\* Variant of EnqueueRoots: an empty roots collection is replaced by a default
\* root.
EnqueueRootsDefault(r) ==
    LET rs == IF r = <<>> THEN <<NodeSeq[1]>> ELSE r
    IN /\ _working_queue' = PutAll(<<>>, rs)
       /\ _sorted' = UpdateAll(<<>>, rs)

\* _build_queue(r) up to the first test of the while condition: the roots are
\* enqueued and inserted into the ordered dictionary.
EnqueueRoots(r) ==
    /\ _working_queue' = PutAll(<<>>, r)
    /\ _sorted' = UpdateAll(<<>>, r)

(***************************************************************************)
(* The explored inputs: every roots sequence over Nodes and every          *)
(* dependency relation in which at most one list entry points to a node    *)
(* of the same or a lower rank, of total size at most MaxSize.  Node names *)
(* carry no meaning, so the relations without such an entry are, up to     *)
(* renaming, all acyclic relations on the nodes; one entry to a node of    *)
(* the same or a lower rank gives the cyclic ones (self-loops and longer   *)
(* cycles).  The caller assembles the input entry by entry before it       *)
(* constructs the visitor.                                                 *)
(***************************************************************************)
\* Len(roots) plus the lengths of all dependency lists.
RECURSIVE SumLen(_, _)
SumLen(g, S) ==
    IF S = {} THEN 0
    ELSE LET n == CHOOSE x \in S : TRUE IN Len(g[n]) + SumLen(g, S \ {n})

Size == Len(roots) + SumLen(deps, Nodes)

\* Whether some entry of the dependency lists points to a node of the same or
\* a lower rank.
HasBackEntry == \E u \in Nodes : \E i \in 1..Len(deps[u]) : Rank(deps[u][i]) <= Rank(u)

\* The caller appends node n to the roots it is going to pass.
AppendRoot ==
    /\ pc = "idle"
    /\ Size < MaxSize
    /\ \E n \in Nodes : roots' = Append(roots, n)
    /\ UNCHANGED <<deps, pc, _working_queue, _sorted, iter, queue, called, dfs_calls,
                   bfs_calls, built, threads, heap, failing, raised, dequeued>>

\* Module u is declared with one more entry in its resolvedRequiresDS, a node
\* v of a higher rank.
AddRequire ==
    /\ pc = "idle"
    /\ Size < MaxSize
    /\ \E u, v \in Nodes :
         /\ Rank(v) > Rank(u)
         /\ deps' = [deps EXCEPT ![u] = Append(@, v)]
    /\ UNCHANGED <<roots, pc, _working_queue, _sorted, iter, queue, called, dfs_calls,
                   bfs_calls, built, threads, heap, failing, raised, dequeued>>

\* Module u is declared with one more entry in its resolvedRequiresDS, a node
\* v of the same or a lower rank; no other entry is of that kind.
AddBackRequire ==
    /\ pc = "idle"
    /\ Size < MaxSize
    /\ ~HasBackEntry
    /\ \E u, v \in Nodes :
         /\ Rank(v) <= Rank(u)
         /\ deps' = [deps EXCEPT ![u] = Append(@, v)]
    /\ UNCHANGED <<roots, pc, _working_queue, _sorted, iter, queue, called, dfs_calls,
                   bfs_calls, built, threads, heap, failing, raised, dequeued>>

\* The exception that reading n.resolvedRequiresDS raises, for n in failing.
Failure(n) == [error |-> "resolvedRequiresDS", of |-> n]

\* Module n is declared with a resolvedRequiresDS that raises when it is read;
\* at most one module is.
MarkFailing ==
    /\ pc = "idle"
    /\ failing = {}
    /\ \E n \in Nodes : failing' = {n}
    /\ UNCHANGED <<deps, roots, pc, _working_queue, _sorted, iter, queue, called, dfs_calls,
                   bfs_calls, built, threads, heap, raised, dequeued>>

\* ModulesVisitor(roots) is called and runs up to the first test of the while
\* condition.
Construct ==
    /\ pc = "idle"
    /\ EnqueueRoots(roots)
    /\ pc' = "loop"
    /\ dequeued' = [n \in Nodes |-> 0]
    /\ UNCHANGED <<deps, roots, iter, queue, called, dfs_calls, bfs_calls, built, threads,
                   heap, failing, raised>>

\* The while condition holds: mod is dequeued and the for loop over
\* mod.resolvedRequiresDS starts.
Dequeue ==
    /\ pc = "loop"
    /\ _working_queue # <<>>
    /\ LET mod == Front(_working_queue)
       IN /\ mod \notin failing
          /\ Len(Get(_working_queue)) + Len(deps[mod]) <= QueueCap
          /\ dequeued[mod] < MaxDequeues
          /\ iter' = deps[mod]
          /\ pc' = IF deps[mod] = <<>> THEN "loop" ELSE "for"
    /\ _working_queue' = Get(_working_queue)
    /\ dequeued' = [dequeued EXCEPT ![Front(_working_queue)] = @ + 1]
    /\ UNCHANGED <<deps, roots, _sorted, queue, called, dfs_calls, bfs_calls, built,
                   threads, heap, failing, raised>>

\* Variant of DequeueRaise: the exception is caught in the loop and mod is taken
\* to have no dependencies.
DequeueRaiseSwallow ==
    /\ pc = "loop"
    /\ _working_queue # <<>>
    /\ Front(_working_queue) \in failing
    /\ _working_queue' = Get(_working_queue)
    /\ dequeued' = [dequeued EXCEPT ![Front(_working_queue)] = @ + 1]
    /\ iter' = <<>>
    /\ UNCHANGED <<deps, roots, pc, _sorted, queue, called, dfs_calls, bfs_calls, built,
                   threads, heap, failing, raised>>

\* The while condition holds and mod is dequeued, but reading
\* mod.resolvedRequiresDS raises: nothing catches the exception, it leaves
\* _build_queue and __init__, and self.queue is never assigned.
DequeueRaise ==
    /\ pc = "loop"
    /\ _working_queue # <<>>
    /\ Front(_working_queue) \in failing
    /\ _working_queue' = Get(_working_queue)
    /\ dequeued' = [dequeued EXCEPT ![Front(_working_queue)] = @ + 1]
    /\ raised' = Append(raised, Failure(Front(_working_queue)))
    /\ pc' = "raised"
    /\ UNCHANGED <<deps, roots, _sorted, iter, queue, called, dfs_calls, bfs_calls, built,
                   threads, heap, failing>>

\* Variant of ForBody: a dependency already in the ordered keys is moved to the
\* end but not enqueued again.
ForBodySkipSeen ==
    /\ pc = "for"
    /\ LET m == Head(iter)
       IN /\ _working_queue' = IF Contains(_sorted, m) THEN _working_queue
                                                        ELSE Put(_working_queue, m)
          /\ _sorted' = Reinsert(_sorted, m)
    /\ iter' = Tail(iter)
    /\ pc' = IF Tail(iter) = <<>> THEN "loop" ELSE "for"
    /\ UNCHANGED <<deps, roots, queue, called, dfs_calls, bfs_calls, built, threads, heap,
                   failing, raised, dequeued>>

\* Variant of ForBody: the usual breadth-first search, in which a dependency
\* already in the ordered keys is skipped altogether.
ForBodyVisitedCheck ==
    /\ pc = "for"
    /\ LET m == Head(iter)
       IN IF Contains(_sorted, m)
          THEN UNCHANGED <<_working_queue, _sorted>>
          ELSE /\ _working_queue' = Put(_working_queue, m)
               /\ _sorted' = Reinsert(_sorted, m)
    /\ iter' = Tail(iter)
    /\ pc' = IF Tail(iter) = <<>> THEN "loop" ELSE "for"
    /\ UNCHANGED <<deps, roots, queue, called, dfs_calls, bfs_calls, built, threads, heap,
                   failing, raised, dequeued>>

\* One iteration of the for loop, for the dependency m: m is enqueued and
\* re-inserted into the ordered dictionary; after the last one the while
\* condition is tested again.
ForBody ==
    /\ pc = "for"
    /\ LET m == Head(iter)
       IN /\ _working_queue' = Put(_working_queue, m)
          /\ _sorted' = Reinsert(_sorted, m)
    /\ iter' = Tail(iter)
    /\ pc' = IF Tail(iter) = <<>> THEN "loop" ELSE "for"
    /\ UNCHANGED <<deps, roots, queue, called, dfs_calls, bfs_calls, built, threads, heap,
                   failing, raised, dequeued>>

\* Variant of Return: the keys are returned without the reversal.
ReturnUnreversed ==
    /\ pc = "loop"
    /\ _working_queue = <<>>
    /\ queue' = _sorted
    /\ built' = Append(built, queue')
    /\ pc' = "done"
    /\ UNCHANGED <<deps, roots, _working_queue, _sorted, iter, called, dfs_calls, bfs_calls,
                   threads, heap, failing, raised, dequeued>>

\* Variant of Return: the keys are held in an unordered container, whose
\* iteration order is any order.
ReturnUnordered ==
    /\ pc = "loop"
    /\ _working_queue = <<>>
    /\ queue' \in {s \in [1..Len(_sorted) -> Elems(_sorted)] : Elems(s) = Elems(_sorted)}
    /\ built' = Append(built, queue')
    /\ pc' = "done"
    /\ UNCHANGED <<deps, roots, _working_queue, _sorted, iter, called, dfs_calls, bfs_calls,
                   threads, heap, failing, raised, dequeued>>

\* The while condition fails: _build_queue returns the reversed keys and
\* __init__ stores them in self.queue.
Return ==
    /\ pc = "loop"
    /\ _working_queue = <<>>
    /\ queue' = Reversed(_sorted)
    /\ built' = Append(built, queue')
    /\ pc' = "done"
    /\ UNCHANGED <<deps, roots, _working_queue, _sorted, iter, called, dfs_calls, bfs_calls,
                   threads, heap, failing, raised, dequeued>>

\* dfs_visit(action, state): action is called on every node of self.queue, in
\* order.
dfs_visit ==
    /\ pc = "done"
    /\ dfs_calls' = ForEach(queue, <<>>)
    /\ called' = called \cup {"dfs"}
    /\ UNCHANGED <<deps, roots, pc, _working_queue, _sorted, iter, queue, bfs_calls, built,
                   threads, heap, failing, raised, dequeued>>

\* Variant of bfs_visit: the loop runs over self.queue itself.
bfs_visitForward ==
    /\ pc = "done"
    /\ bfs_calls' = ForEach(queue, <<>>)
    /\ called' = called \cup {"bfs"}
    /\ UNCHANGED <<deps, roots, pc, _working_queue, _sorted, iter, queue, dfs_calls, built,
                   threads, heap, failing, raised, dequeued>>

\* Variant of bfs_visit: self.queue is reversed in place (list.reverse) and
\* then walked.
bfs_visitInPlace ==
    /\ pc = "done"
    /\ queue' = Reversed(queue)
    /\ bfs_calls' = ForEach(queue', <<>>)
    /\ called' = called \cup {"bfs"}
    /\ UNCHANGED <<deps, roots, pc, _working_queue, _sorted, iter, dfs_calls, built,
                   threads, heap, failing, raised, dequeued>>

\* bfs_visit(action, state): action is called on every node of
\* reversed(self.queue), in order.
bfs_visit ==
    /\ pc = "done"
    /\ bfs_calls' = ForEach(Reversed(queue), <<>>)
    /\ called' = called \cup {"bfs"}
    /\ UNCHANGED <<deps, roots, pc, _working_queue, _sorted, iter, queue, dfs_calls, built,
                   threads, heap, failing, raised, dequeued>>

(***************************************************************************)
(* The traversals, call by call.  A thread in a traversal holds the        *)
(* iterator of its for loop (the number idx of nodes it has yielded) and   *)
(* the state object it was given.  The caller's action appends the node to *)
(* the state object it receives; calls records, for every invocation, the  *)
(* node and the value of the state object the action found.                *)
(***************************************************************************)
\* What the for loop of a traversal of kind k walks: self.queue (dfs_visit) or
\* reversed(self.queue) (bfs_visit).
IterOrder(k) == IF k = "dfs" THEN queue ELSE Reversed(queue)

\* Thread t calls dfs_visit(action, s) or bfs_visit(action, s) with its state
\* object s.  The thread that calls first is called t1.
StartVisit(t) ==
    /\ pc = "done"
    /\ Size <= MaxVisitSize
    /\ threads[t].pc = "idle"
    /\ t = "t2" => threads["t1"].pc # "idle"
    /\ \E k \in {"dfs", "bfs"} :
         threads' = [threads EXCEPT ![t] = [pc |-> "run", kind |-> k, idx |-> 0,
                                            state |-> StateOf(t), calls |-> <<>>]]
    /\ UNCHANGED <<deps, roots, pc, _working_queue, _sorted, iter, queue, called, dfs_calls,
                   bfs_calls, built, heap, failing, raised, dequeued>>

\* Variant of CallAction: the action is given a copy of the state object.
CallActionCopy(t) ==
    /\ threads[t].pc = "run"
    /\ threads[t].idx < Len(queue)
    /\ LET m == IterOrder(threads[t].kind)[threads[t].idx + 1]
           s == threads[t].state
       IN /\ threads' = [threads EXCEPT ![t].idx = @ + 1,
                                        ![t].calls = Append(@, [node |-> m, saw |-> heap[s]])]
          /\ heap' = heap
    /\ UNCHANGED <<deps, roots, pc, _working_queue, _sorted, iter, queue, called, dfs_calls,
                   bfs_calls, built, failing, raised, dequeued>>

\* Variant of CallAction: the traversal takes the nodes out of self.queue as it
\* walks it.
CallActionConsume(t) ==
    /\ threads[t].pc = "run"
    /\ queue # <<>>
    /\ LET m == Head(IterOrder(threads[t].kind))
           s == threads[t].state
       IN /\ threads' = [threads EXCEPT ![t].calls = Append(@, [node |-> m, saw |-> heap[s]])]
          /\ heap' = [heap EXCEPT ![s] = Append(@, m)]
          /\ queue' = SelectSeq(queue, LAMBDA x : x # m)
    /\ UNCHANGED <<deps, roots, pc, _working_queue, _sorted, iter, called, dfs_calls,
                   bfs_calls, built, failing, raised, dequeued>>

\* One iteration of the for loop of thread t's traversal: the iterator yields
\* the next node m and action(m, state) is called.
CallAction(t) ==
    /\ threads[t].pc = "run"
    /\ threads[t].idx < Len(queue)
    /\ LET m == IterOrder(threads[t].kind)[threads[t].idx + 1]
           s == threads[t].state
       IN /\ threads' = [threads EXCEPT ![t].idx = @ + 1,
                                        ![t].calls = Append(@, [node |-> m, saw |-> heap[s]])]
          /\ heap' = [heap EXCEPT ![s] = Append(@, m)]
    /\ UNCHANGED <<deps, roots, pc, _working_queue, _sorted, iter, queue, called, dfs_calls,
                   bfs_calls, built, failing, raised, dequeued>>

\* The iterator of thread t's for loop is exhausted: the traversal returns.
EndVisit(t) ==
    /\ threads[t].pc = "run"
    /\ threads[t].idx >= Len(queue)
    /\ threads' = [threads EXCEPT ![t].pc = "end"]
    /\ UNCHANGED <<deps, roots, pc, _working_queue, _sorted, iter, queue, called, dfs_calls,
                   bfs_calls, built, heap, failing, raised, dequeued>>

\* One visitor: its input, its construction and its traversals.
Next ==
    \/ AppendRoot
    \/ AddRequire
    \/ AddBackRequire
    \/ Construct
    \/ Dequeue
    \/ ForBody
    \/ Return
    \/ dfs_visit
    \/ bfs_visit

Spec == Init /\ [][Next]_vars

\* The steps of _build_queue after its first loop test.
Build ==
    \/ Dequeue
    \/ ForBody
    \/ Return

\* One construction over an input without a dependency cycle.
NextAcyclic ==
    \/ AppendRoot
    \/ AddRequire
    \/ Construct
    \/ Build

\* Construction is one sequential call: once started, while a step of it is
\* possible, it is taken.
FairSpec == Init /\ [][NextAcyclic]_vars /\ WF_vars(Build)

\* One visitor over an input without a dependency cycle: its construction and
\* its traversals.
NextOrdered ==
    \/ AppendRoot
    \/ AddRequire
    \/ Construct
    \/ Build
    \/ dfs_visit
    \/ bfs_visit

SpecOrdered == Init /\ [][NextOrdered]_vars

\* ModulesVisitor(roots) is called again, with the same roots over the same
\* modules: a new visitor starts its construction.
ConstructAgain ==
    /\ pc = "done"
    /\ Len(built) < MaxVisitors
    /\ EnqueueRoots(roots)
    /\ pc' = "loop"
    /\ queue' = <<>>
    /\ called' = {}
    /\ dfs_calls' = <<>>
    /\ bfs_calls' = <<>>
    /\ dequeued' = [n \in Nodes |-> 0]
    /\ UNCHANGED <<deps, roots, iter, built, threads, heap, failing, raised>>

\* Constructions only, of up to MaxVisitors visitors.
NextTwo ==
    \/ AppendRoot
    \/ AddRequire
    \/ AddBackRequire
    \/ Construct
    \/ Build
    \/ ConstructAgain

SpecTwo == Init /\ [][NextTwo]_vars

\* The construction in which a step of the for loop enqueues its dependency
\* only when it is not yet in the ordered keys, over an input without a
\* dependency cycle.
NextSkipSeen ==
    \/ AppendRoot
    \/ AddRequire
    \/ Construct
    \/ Dequeue
    \/ ForBodySkipSeen
    \/ Return

SpecSkipSeen == Init /\ [][NextSkipSeen]_vars

\* One visitor over modules of which one may fail to give its dependencies.
NextFail ==
    \/ AppendRoot
    \/ AddRequire
    \/ AddBackRequire
    \/ MarkFailing
    \/ Construct
    \/ Build
    \/ DequeueRaise
    \/ dfs_visit
    \/ bfs_visit

SpecFail == Init /\ [][NextFail]_vars

\* One visitor over an input without a dependency cycle, traversed by the
\* caller's threads at the same time.
NextVisit ==
    \/ AppendRoot
    \/ AddRequire
    \/ Construct
    \/ Build
    \/ \E t \in Threads : StartVisit(t)
    \/ \E t \in Threads : CallAction(t)
    \/ \E t \in Threads : EndVisit(t)

SpecVisit == Init /\ [][NextVisit]_vars

(***************************************************************************)
(* Properties.                                                             *)
(***************************************************************************)
\* Scenario 4 of the specification: the diamond.
Diamond ==
    /\ roots = <<"A">>
    /\ deps = [n \in Nodes |-> CASE n = "A" -> <<"B", "C">>
                                 [] n = "B" -> <<"D">>
                                 [] n = "C" -> <<"D">>
                                 [] OTHER -> <<>>]

\* C1: for an acyclic graph, in the ordering produced by construction every
\* node n is preceded by each of its direct and transitive dependencies d: d is
\* in the ordering and every index of d is strictly smaller than every index
\* of n.
C1_DependenciesFirst ==
    (pc = "done" /\ Acyclic) =>
        \A i \in 1..Len(queue) :
            \A d \in DependenciesOf(queue[i]) :
                /\ \E j \in 1..Len(queue) : queue[j] = d
                /\ \A j \in 1..Len(queue) : queue[j] = d => j < i

\* C1 witness: the diamond has been linearised.
C1_Witness == pc = "done" /\ Diamond

\* C2: the ordering produced by construction holds no node twice, and every
\* node reachable from the roots occurs in it exactly once.
C2_ExactlyOnce ==
    pc = "done" =>
        /\ \A i, j \in 1..Len(queue) : queue[i] = queue[j] => i = j
        /\ \A n \in Reachable : Count(queue, n) = 1

\* C2 witness: an ordering built from roots that name a node twice, over a
\* dependency list that names a node twice.
C2_Witness ==
    /\ pc = "done"
    /\ \E n \in Nodes : Count(roots, n) >= 2 /\ \E d \in Nodes : Count(deps[n], d) >= 2

\* C3: the nodes of the final ordering are exactly the roots together with the
\* nodes reachable from a root through dependency edges.
C3_ExactlyReachable == pc = "done" => Elems(queue) = Reachable

\* C3 witness: an ordering with a root that has no dependencies and no
\* dependents, a root that has dependencies, and an unreachable node.
C3_Witness ==
    /\ pc = "done"
    /\ \E r \in Elems(roots) : deps[r] = <<>> /\ \A n \in Nodes : r \notin Requires(n)
    /\ \E r \in Elems(roots) : deps[r] # <<>>
    /\ Reachable # Nodes

\* C4: the sequence of nodes bfs_visit passes to the action is the element-wise
\* reverse of the sequence dfs_visit passes to it.
C4_BackwardIsReverse ==
    called = {"dfs", "bfs"} =>
        /\ Len(bfs_calls) = Len(dfs_calls)
        /\ \A i \in 1..Len(dfs_calls) : bfs_calls[i] = dfs_calls[Len(dfs_calls) + 1 - i]

\* C4 witness: both traversals have run over an ordering of three nodes or more.
C4_Witness == called = {"dfs", "bfs"} /\ Len(dfs_calls) >= 3

\* C5: a construction that has started over an acyclic graph terminates: the
\* work queue becomes empty and the ordering is produced.
C5_Terminates == (pc = "loop" /\ Acyclic) ~> (pc = "done" /\ _working_queue = <<>>)

\* C5 witness: a construction over an acyclic graph has ended after a node with
\* dependencies was enqueued more than once and the roots held two nodes or
\* more.
C5_Witness ==
    /\ pc = "done"
    /\ Acyclic
    /\ Len(roots) >= 2
    /\ \E n \in Nodes : deps[n] # <<>> /\ \E m \in Nodes : Count(deps[m], n) >= 2

\* Some node reachable from the roots lies on a dependency cycle.
CycleReachable == \E n \in Reachable : OnCycle(n)

\* A node that lies on a cycle has been enqueued (every enqueued node is a key
\* of the ordered dictionary).
CycleEntered == \E n \in Elems(_sorted) : OnCycle(n)

\* C6: if a node reachable from the roots lies on a dependency cycle, no
\* ordering is ever produced, and once a node of a cycle has been enqueued the
\* work queue is non-empty at every test of the loop condition.
C6_CycleNeverReturns ==
    /\ CycleReachable => pc # "done"
    /\ (pc = "loop" /\ CycleEntered) => _working_queue # <<>>

\* C6 witness: a loop test, on a graph with a reachable cycle, at which the work
\* queue has grown to the largest explored length.
C6_Witness ==
    /\ pc = "loop"
    /\ CycleReachable
    /\ CycleEntered
    /\ Len(_working_queue) = QueueCap

\* Scenario 2 of the specification: two roots that share one dependency.
SharedDependency ==
    /\ roots = <<"A", "B">>
    /\ deps["A"] = <<"C">>
    /\ deps["B"] = <<"C">>
    /\ deps["C"] = <<>>

\* C7, as stated: for roots = [A, B] with A and B both depending on [C], the
\* ordering is [C, A, B].
C7_RootOrderKept == (pc = "done" /\ SharedDependency) => queue = <<"C", "A", "B">>

\* C7, amended: for roots = [A, B] with A and B both depending on [C], the
\* ordering holds C exactly once, before both A and B, and A and B follow in
\* the reverse of root order: the ordering is [C, B, A].
C7_RootOrderReversed == (pc = "done" /\ SharedDependency) => queue = <<"C", "B", "A">>

\* C7 witness: the construction of scenario 2 has ended.
C7_Witness == pc = "done" /\ SharedDependency

\* Scenario 3 of the specification: A lists B before C, and C depends on B.
Rediscovery ==
    /\ roots = <<"A">>
    /\ deps["A"] = <<"B", "C">>
    /\ deps["B"] = <<>>
    /\ deps["C"] = <<"B">>

\* C8: for roots = [A] with A depending on [B, C] and C depending on [B], the
\* ordering is exactly [B, C, A].
C8_RediscoveryRelocates == (pc = "done" /\ Rediscovery) => queue = <<"B", "C", "A">>

\* C8 witness: the construction of scenario 3 has ended.
C8_Witness == pc = "done" /\ Rediscovery

C10_EmptyRoots ==
    roots = <<>> =>
        /\ pc = "loop" => (_working_queue = <<>> /\ _sorted = <<>>)
        /\ pc = "done" => queue = <<>>
        /\ "dfs" \in called => dfs_calls = <<>>
        /\ "bfs" \in called => bfs_calls = <<>>

\* C10 witness: both traversals have run on a visitor built from no roots, over
\* modules that do have dependencies.
C10_Witness ==
    /\ roots = <<>>
    /\ called = {"dfs", "bfs"}
    /\ \E n \in Nodes : deps[n] # <<>>

\* C11: once the visitor is constructed, no dfs_visit or bfs_visit call changes
\* its ordering: the sequence of a dfs_visit that has run is the sequence of
\* every later dfs_visit, the same for bfs_visit, and the bfs_visit sequence is
\* the reverse of the dfs_visit one.
C11_TraversalKeepsOrdering ==
    [][(pc = "done" /\ pc' = "done") =>
          /\ queue' = queue
          /\ "dfs" \in called => dfs_calls' = dfs_calls
          /\ "bfs" \in called => bfs_calls' = bfs_calls
          /\ called' = {"dfs", "bfs"} => bfs_calls' = Reversed(dfs_calls')]_vars

\* C11 witness: traversals in both directions have run on one visitor, whose
\* ordering of three nodes or more is the one it was constructed with.
C11_Witness ==
    /\ called = {"dfs", "bfs"}
    /\ built = <<queue>>
    /\ Len(queue) >= 3
    /\ bfs_calls = Reversed(queue)

\* The nodes passed to the action by the invocations recorded in c, in call
\* order.
NodesOf(c) == [i \in 1..Len(c) |-> c[i].node]

\* C12: a dfs_visit call invokes the action once for each node of the ordering,
\* in ordering order, so that the dependencies of a node are passed before the
\* node, and every invocation receives the one state object of the call: the
\* i-th invocation finds in it the mutations of the i - 1 invocations before it,
\* and when the call returns the caller's object holds all of them.
C12_ForwardOncePerNode ==
    \A t \in Threads :
        (threads[t].pc # "idle" /\ threads[t].kind = "dfs") =>
            LET c == threads[t].calls
            IN /\ Len(c) <= Len(queue)
               /\ \A i \in 1..Len(c) :
                    /\ c[i].node = queue[i]
                    /\ c[i].saw = SubSeq(queue, 1, i - 1)
               /\ threads[t].pc = "end" =>
                    /\ NodesOf(c) = queue
                    /\ heap[threads[t].state] = queue
                    /\ \A i \in 1..Len(c) :
                         \A d \in DependenciesOf(c[i].node) :
                             \E j \in 1..(i - 1) : c[j].node = d

\* C12 witness: a dfs_visit call, alone on the visitor, has returned after it
\* walked an ordering of three nodes or more.
C12_Witness ==
    /\ threads["t1"].pc = "end"
    /\ threads["t1"].kind = "dfs"
    /\ threads["t2"].pc = "idle"
    /\ Len(queue) >= 3

\* C14: when two traversals of one visitor run at the same time with separate
\* state objects, then however their invocations interleave, each has invoked
\* the action on a prefix of its own order (self.queue for dfs_visit, its
\* reverse for bfs_visit) without a repetition, on all of it when it returns,
\* its state object holds its own invocations only, and the ordering is the
\* one construction produced.
C14_ConcurrentTraversals ==
    (\A t \in Threads : threads[t].pc # "idle") =>
        /\ queue = built[Len(built)]
        /\ \A t \in Threads :
             LET c == threads[t].calls
                 order == IF threads[t].kind = "dfs" THEN built[Len(built)]
                                                    ELSE Reversed(built[Len(built)])
             IN /\ Len(c) <= Len(order)
                /\ NodesOf(c) = SubSeq(order, 1, Len(c))
                /\ \A i, j \in 1..Len(c) : c[i].node = c[j].node => i = j
                /\ heap[threads[t].state] = NodesOf(c)
                /\ threads[t].pc = "end" => Len(c) = Len(order)

\* C14 witness: a dfs_visit and a bfs_visit of one visitor are both under way,
\* each between two of its invocations, the first after one invocation and the
\* second after two.
C14_Witness ==
    /\ threads["t1"].pc = "run" /\ threads["t1"].kind = "dfs" /\ threads["t1"].idx = 1
    /\ threads["t2"].pc = "run" /\ threads["t2"].kind = "bfs" /\ threads["t2"].idx = 2
    /\ Len(queue) >= 3

\* What holds of a construction in which a read of a node's dependencies may
\* fail: the caller has received an exception exactly when the constructor was
\* left by one; it is then the one exception the accessor of a node that was
\* enqueued raised, as raised, and the visitor has no ordering and has made no
\* traversal; and an ordering is only ever produced when no reachable node
\* fails.
ReadFailureReachesCaller ==
    /\ raised # <<>> <=> pc = "raised"
    /\ pc = "raised" =>
         /\ \E n \in failing \cap Elems(_sorted) : raised = <<Failure(n)>>
         /\ queue = <<>>
         /\ built = <<>>
         /\ called = {}
    /\ pc = "done" => failing \cap Reachable = {}

\* C13: if reading a node's dependencies fails during construction, the failure
\* reaches the caller of the constructor as it was raised, the visitor never
\* holds an ordering and is never traversed, and construction stops there: no
\* step of the visitor follows.
C13_ReadFailurePropagates == []ReadFailureReachesCaller /\ [][pc # "raised"]_vars

\* C13 witness: a construction was left by the exception of a node that is not
\* a root, after the ordered keys had grown to three nodes or more.
C13_Witness ==
    /\ pc = "raised"
    /\ \E n \in failing : n \notin Elems(roots) /\ raised = <<Failure(n)>>
    /\ Len(_sorted) >= 3

\* A step of the for loop re-inserts its dependency m by move-to-end: in the
\* ordered keys after the step m is the last key and occurs once, and the other
\* keys are those of before, in the same order.
DependencyMovedToEnd ==
    ForBody =>
        LET m == Head(iter)
        IN /\ _sorted' # <<>>
           /\ _sorted'[Len(_sorted')] = m
           /\ Count(_sorted', m) = 1
           /\ SelectSeq(_sorted', LAMBDA x : x # m) = SelectSeq(_sorted, LAMBDA x : x # m)

\* The ordered keys s hold the nodes of ms once each.
HoldsOnce(s, ms) == Elems(s) = Elems(ms) /\ \A n \in Elems(ms) : Count(s, n) = 1

\* C15, as stated: every re-insertion of a node already in the ordered set
\* moves it to the tail, a repeated entry of the roots sequence as well as a
\* dependency of a dequeued node; so after the roots are inserted the keys are
\* the roots in the order of their last occurrences.
C15_EveryReinsertionMovesToEnd ==
    [][/\ Construct =>
            /\ HoldsOnce(_sorted', roots)
            /\ \A i, j \in 1..Len(_sorted') :
                 i < j => LastIdx(roots, _sorted'[i]) < LastIdx(roots, _sorted'[j])
       /\ DependencyMovedToEnd]_vars

\* C15, amended: a dependency of a dequeued node that is already in the ordered
\* set is moved to the tail, while a repeated entry of the roots sequence leaves
\* the node where its first occurrence put it; so after the roots are inserted
\* the keys are the roots in the order of their first occurrences.
C15_DependencyReinsertionMovesToEnd ==
    [][/\ Construct =>
            /\ HoldsOnce(_sorted', roots)
            /\ \A i, j \in 1..Len(_sorted') :
                 i < j => FirstIdx(roots, _sorted'[i]) < FirstIdx(roots, _sorted'[j])
       /\ DependencyMovedToEnd]_vars

\* C15 witness: a loop test of a construction whose roots repeat a node after
\* another root, reached after a step of the for loop moved a root to the tail.
C15_Witness ==
    /\ pc = "loop"
    /\ _working_queue # <<>>
    /\ \E a, b \in Elems(roots) :
         FirstIdx(roots, a) < FirstIdx(roots, b) /\ LastIdx(roots, b) < LastIdx(roots, a)
    /\ \E n \in Elems(roots) :
         /\ _sorted[Len(_sorted)] = n
         /\ Len(_sorted) < FirstIdx(roots, n) + Cardinality(Elems(roots))
         /\ \E u \in Elems(_sorted) : n \in Requires(u)

\* The sum of f[n] over the nodes n of S.
RECURSIVE Sum(_, _)
Sum(f, S) ==
    IF S = {} THEN 0
    ELSE LET n == CHOOSE x \in S : TRUE IN f[n] + Sum(f, S \ {n})

\* The number of dependency paths of one entry or more from u to n.  A path is
\* a chain of entries of dependency lists, so that a node listed twice by its
\* dependent is reached by two paths.  (Defined where no cycle is reachable
\* from u.)
RECURSIVE PathsFrom(_, _)
PathsFrom(u, n) ==
    LET upTo[k \in 0..Len(deps[u])] ==
            IF k = 0 THEN 0
            ELSE upTo[k - 1] + (IF deps[u][k] = n THEN 1 ELSE 0) + PathsFrom(deps[u][k], n)
    IN upTo[Len(deps[u])]

\* The number of dependency paths of one entry or more from the occurrences of
\* nodes in roots to n.
PathsFromRoots(n) ==
    LET upTo[i \in 0..Len(roots)] ==
            IF i = 0 THEN 0 ELSE upTo[i - 1] + PathsFrom(roots[i], n)
    IN upTo[Len(roots)]

\* C16: every direct dependency of a dequeued node is enqueued, whether or not
\* it is in the ordered set: at every test of the loop condition, what has
\* been dequeued of a node n and what waits of it in the work queue add up to
\* its occurrences in roots plus one for every entry naming n in the
\* dependency list of every node dequeued so far, counted once per dequeue.
\* Consequently, when the construction has ended, n has been dequeued as often
\* as it occurs in roots plus the number of dependency paths from root
\* occurrences to n.
C16_DequeuedOncePerPath ==
    /\ pc = "loop" =>
         \A n \in Nodes :
             dequeued[n] + Count(_working_queue, n)
                 = Count(roots, n)
                   + Sum([m \in Nodes |-> IF dequeued[m] = 0 THEN 0
                                          ELSE dequeued[m] * Count(deps[m], n)], Nodes)
    /\ pc = "done" =>
         \A n \in Nodes : dequeued[n] = Count(roots, n) + PathsFromRoots(n)

\* C16 witness: a construction has ended in which a node that was already in
\* the ordered set was enqueued again, and some node was dequeued three times
\* or more.
C16_Witness ==
    /\ pc = "done"
    /\ \E n \in Nodes : dequeued[n] >= 3
    /\ \E n \in Nodes : dequeued[n] >= 2 /\ deps[n] # <<>>

\* An acyclic graph in which two paths meet again: A lists C before B, B
\* depends on C as well, and C has a dependency of its own.
Reconvergent ==
    /\ roots = <<"A">>
    /\ deps = [n \in Nodes |-> CASE n = "A" -> <<"C", "B">>
                                 [] n = "B" -> <<"C">>
                                 [] n = "C" -> <<"D">>
                                 [] OTHER -> <<>>]

\* C17: the construction that moves a dependency already in the ordered set to
\* the tail without enqueueing it again produces, for the re-convergent graph
\* above, an ordering in which a node stands before one of its dependencies:
\* the ordering is [C, D, B, A], because C, moved behind D when B is dequeued,
\* is not dequeued again to move D.
C17_SkipSeenBreaksOrder ==
    (pc = "done" /\ Reconvergent) =>
        /\ queue = <<"C", "D", "B", "A">>
        /\ \E i, j \in 1..Len(queue) : i < j /\ queue[j] \in DependenciesOf(queue[i])

\* C17 witness: that construction has ended on the re-convergent graph.
C17_Witness == pc = "done" /\ Reconvergent /\ Len(queue) = 4

\* The roots that no reachable node depends on.
FreeRoots ==
    LET reached == Reachable
    IN {r \in Elems(roots) : \A n \in reached : r \notin Requires(n)}

\* C18: the roots that no reachable node depends on are never relocated: no
\* step of the for loop re-inserts one, and throughout the construction they
\* stand in the ordered keys in the order of their first occurrences in roots.
\* In the final ordering they occupy the last positions, after every other
\* node, in the reverse of that order, so that the last node dfs_visit visits
\* is the first such root.
C18_FreeRootsLast ==
    LET free == FreeRoots
    IN /\ pc = "for" => Head(iter) \notin free
       /\ pc \in {"loop", "for"} =>
            \A a, b \in free :
                FirstIdx(roots, a) < FirstIdx(roots, b)
                    => FirstIdx(_sorted, a) < FirstIdx(_sorted, b)
       /\ pc = "done" =>
            /\ \A i \in 1..Len(queue) :
                 queue[i] \in free <=> i > Len(queue) - Cardinality(free)
            /\ \A a, b \in free :
                 FirstIdx(roots, a) < FirstIdx(roots, b)
                     => FirstIdx(queue, b) < FirstIdx(queue, a)
            /\ ("dfs" \in called /\ free # {}) =>
                 \A r \in free :
                     FirstIdx(roots, dfs_calls[Len(dfs_calls)]) <= FirstIdx(roots, r)

\* C18 witness: dfs_visit has run on an ordering with two such roots or more,
\* one of them repeated in roots, and a root that another node depends on.
C18_Witness ==
    /\ "dfs" \in called
    /\ Cardinality(FreeRoots) >= 2
    /\ \E r \in FreeRoots : Count(roots, r) >= 2
    /\ Elems(roots) \ FreeRoots # {}

\* C19: at every test of the loop condition, for every node n in the ordered
\* set and every direct dependency d of n, either d is in the ordered set at a
\* later position than n, or an occurrence of n is still waiting in the work
\* queue.
C19_DependencyLaterOrPending ==
    pc = "loop" =>
        \A i \in 1..Len(_sorted) :
            \A d \in Requires(_sorted[i]) :
                \/ \E j \in (i + 1)..Len(_sorted) : _sorted[j] = d
                \/ \E k \in 1..Len(_working_queue) : _working_queue[k] = _sorted[i]

\* C19 witness: a loop test with the work queue not yet empty, at which a node
\* with a dependency is no longer waiting, and another node that lists the same
\* dependency still is.
C19_Witness ==
    /\ pc = "loop"
    /\ \E n, m \in Elems(_sorted) :
         /\ n # m
         /\ Requires(n) \cap Requires(m) # {}
         /\ Count(_working_queue, n) = 0
         /\ Count(_working_queue, m) > 0

\* The number of entries of the longest dependency path to n from a root,
\* through the nodes of R.  (Defined where R holds no cycle.)
RECURSIVE DistanceIn(_, _)
DistanceIn(R, n) ==
    LET above == {m \in R : n \in Requires(m)}
        lengths == {DistanceIn(R, m) + 1 : m \in above} \cup {0}
    IN CHOOSE x \in lengths : \A y \in lengths : y <= x

\* The longest dependency-path distance of a reachable node n from the roots:
\* 0 exactly for a root that no reachable node depends on.
Distance(n) == DistanceIn(Reachable, n)

\* C20: on an acyclic graph bfs_visit passes the nodes to the action in
\* non-decreasing order of their longest dependency-path distance from the
\* roots, and dfs_visit in non-increasing order of it.
C20_OrderedByDistance ==
    called # {} =>
        LET reached == Reachable
        IN /\ "bfs" \in called =>
                \A i \in 1..(Len(bfs_calls) - 1) :
                    DistanceIn(reached, bfs_calls[i]) <= DistanceIn(reached, bfs_calls[i + 1])
           /\ "dfs" \in called =>
                \A i \in 1..(Len(dfs_calls) - 1) :
                    DistanceIn(reached, dfs_calls[i]) >= DistanceIn(reached, dfs_calls[i + 1])

\* C20 witness: both traversals have run on an ordering in which a node listed
\* by a root is also reached by a longer path, and two nodes are at the same
\* distance.
C20_Witness ==
    /\ called = {"dfs", "bfs"}
    /\ \E r \in Elems(roots) : \E n \in Requires(r) : Distance(n) >= 2
    /\ \E a, b \in Elems(queue) : a # b /\ Distance(a) = Distance(b)

\* No key occurs twice in the ordered dictionary.
SortedDistinct == \A i, j \in 1..Len(_sorted) : _sorted[i] = _sorted[j] => i = j

\* Every entry of the work queue is a key of the ordered dictionary.
PendingAreMembers == Elems(_working_queue) \subseteq Elems(_sorted)

\* C21: at every test of the loop condition the ordered set holds no node
\* twice and every node waiting in the work queue is a member of it; and while
\* a construction runs no step removes a node from the ordered set, so a node
\* once inserted is a member at every later test of the loop condition.
C21_LoopInvariant ==
    /\ [](pc = "loop" => SortedDistinct /\ PendingAreMembers)
    /\ [][(pc \in {"loop", "for"} /\ pc' \in {"loop", "for"})
            => Elems(_sorted) \subseteq Elems(_sorted')]_vars

\* C21 witness: a loop test after a node already in the ordered set has been
\* found again and re-inserted, with that node waiting twice in the work queue
\* and the ordered set grown beyond the roots.
C21_Witness ==
    /\ pc = "loop"
    /\ Len(_sorted) >= 3
    /\ Elems(_sorted) # Elems(roots)
    /\ \E n \in Elems(_sorted) :
         /\ Count(_working_queue, n) >= 2
         /\ \E m \in Nodes : dequeued[m] >= 1 /\ n \in Requires(m)

====
